---- MODULE Spec2Model ----
(***************************************************************************)
(* State-machine model of the MPC wallet REST facade: the file-backed      *)
(* Metadata Store (storage/fileStorage.ts), the Vault Orchestrator         *)
(* (services/vaultService.ts) and the routing layer (routes + error        *)
(* handler).                                                               *)
(*                                                                         *)
(* Granularity.  The runtime is a single-threaded event loop: the code     *)
(* between two awaits runs atomically.  One action of the model is the     *)
(* completion of one awaited external operation (an SDK call, a file read  *)
(* or a file write) together with the synchronous continuation that runs   *)
(* up to the next await.  Requests live in slots; several requests can be  *)
(* in flight and their steps interleave freely.                            *)
(*                                                                         *)
(* The SDK is a black box: every SDK promise may resolve or reject, and    *)
(* the values it hands back are chosen nondeterministically.  Vault ids    *)
(* issued by the SDK are unique.  A file write either happens completely   *)
(* or fails leaving the file as it was.                                    *)
(* Reading an existing record file succeeds, except under SpecErrors,      *)
(* where the reads of the Metadata Store can fail.  The storage directory  *)
(* exists, except under SpecStartup, where the process is started with     *)
(* the directory in any condition.                                         *)
(*                                                                         *)
(* JS objects are functions from key names to values; a key whose value    *)
(* is undefined is absent, which is also what JSON.stringify / JSON.parse  *)
(* make of it, so a stored file is the object itself.                      *)
(***************************************************************************)
EXTENDS Integers, Sequences, FiniteSets, TLC

\* ---------------------------------------------------------------- bounds
MaxCallbacks == 2
MaxDevices == 2

\* ------------------------------------------------------------ value sets
VaultIds == {"v1", "v2"}
Chains == {"Bitcoin", "Ethereum"}
Slots == {1, 2}
Null == [null |-> TRUE]

TEST_VERIFICATION_CODE == "000000"

\* request inputs: "" is the empty string, a missing key is undefined
Codes == {"000000", "123456"}
UserIds == {"", "alice"}
\* base64 strings returned by exportAsBase64
Blob(text) == [base64 |-> text]
Blobs == {Blob("blob1")}

OptUser == {<<>>} \cup {[userId |-> u] : u \in UserIds}

\* bodies of POST /fast: complete ones, and ones with an empty or missing field
FastBodies ==
    {[name |-> "W", email |-> "a@b.com", password |-> "P"] @@ u : u \in OptUser}
    \cup {[name |-> "", email |-> "a@b.com", password |-> "P"],
          [name |-> "W", password |-> "P"],
          [name |-> "W", email |-> "a@b.com", password |-> ""]}

\* bodies of POST /secure: every devices/threshold pair, and a missing name
SecureBodies ==
    {[name |-> "W", devices |-> d, threshold |-> t] @@ u :
        d \in 0..MaxDevices, t \in 0..(MaxDevices + 1), u \in OptUser}
    \cup {[devices |-> 1, threshold |-> 1]}

\* ------------------------------------------------------------ JS helpers
\* `!s` for a string or undefined value
Has(obj, k) == k \in DOMAIN obj
TruthyStr(obj, k) == Has(obj, k) /\ obj[k] # ""
TruthyNum(obj, k) == Has(obj, k) /\ obj[k] # 0

\* metadata.chains || []
ChainsOrEmpty(metadata) == IF Has(metadata, "chains") THEN metadata.chains ELSE <<>>

Range(s) == {s[i] : i \in DOMAIN s}

\* as SetAdd, the chain not united with the chains already there
SetAdd_replace(arr, chain) == <<chain>>

\* Array.from(new Set(arr).add(chain)): insertion order, no duplicate
SetAdd(arr, chain) == IF chain \in Range(arr) THEN arr ELSE Append(arr, chain)

\* as Merge, the record replaced by the updates instead of merged with them
Merge_overwrite(metadata, updates) ==
    updates @@ [vaultId |-> metadata.vaultId, name |-> metadata.name,
                email |-> metadata.email, createdAt |-> metadata.createdAt,
                verified |-> FALSE]

\* as Merge, the spread in the other order: fields the record has are kept
Merge_keepOld(metadata, updates) == metadata @@ updates

\* { ...metadata, ...updates }
Merge(metadata, updates) == updates @@ metadata

\* ----------------------------------------------------------------- errors
AppError(message, statusCode) ==
    [isAppError |-> TRUE, message |-> message, statusCode |-> statusCode]
Error(message) ==
    [isAppError |-> FALSE, message |-> message, statusCode |-> 0]

ErrNotFoundOrNotVerified == "Vault not found or not verified"
ErrNotLoadedReverify == "Vault not loaded. Please re-verify the vault first."
ErrNotLoadedVerify == "Vault not loaded. Please verify the vault first."
ErrNotLoaded == "Vault not loaded"
ErrNoExport == "Vault does not support export"
ErrVaultNotFound == "Vault not found"
ErrUpdateNotFound == "Vault ${vaultId} not found"
ErrSdk == "sdk rejected"
\* the error of TestVault.sign
ErrTestSign ==
    "Signing is not available in TEST_MODE. Use real verification for signing operations."

ErrIo == "write failed"

\* as errorHandler, the status code of an AppError not used
errorHandler_always500(err) ==
    [status |-> 500,
     success |-> FALSE,
     error |-> IF err.message # "" THEN err.message ELSE "Internal server error",
     data |-> Null]

\* errorHandler: AppError keeps its status, anything else is 500
errorHandler(err) ==
    [status |-> IF err.isAppError THEN err.statusCode ELSE 500,
     success |-> FALSE,
     error |-> IF err.message # "" THEN err.message ELSE "Internal server error",
     data |-> Null]

Success(status, data) ==
    [status |-> status, success |-> TRUE, error |-> "", data |-> data]

\* ---------------------------------------------------------------- handles
TestVault == [kind |-> "test", export |-> TRUE]
FastVaultHandles == {[kind |-> "fast", export |-> e] : e \in BOOLEAN}
SecureVaultHandles == {[kind |-> "secure", export |-> e] : e \in BOOLEAN}

\* ------------------------------------------------------------------ state
VARIABLES
    isTestMode,            \* process.env.TEST_MODE === 'true'
    proc,                  \* the process: position of startServer, storage directory
    store,                 \* <id>.meta.json files: vaultId -> record or Null
    exports,               \* <id>.vault.backup files: vaultId -> blob or Null
    vaults,                \* VaultService.vaults: vaultId -> live handle or Null
    secureVaultSessions,   \* VaultService.secureVaultSessions
    req,                   \* request slots: position and locals of each handler in flight
    out,                   \* the response sent by the step just taken, if any
    issued,                \* vault ids the SDK has handed out so far
    created                \* history: ids for which a create call has completed

vars == <<isTestMode, proc, store, exports, vaults, secureVaultSessions, req, out,
          issued, created>>

IdleSlot == [pc |-> "idle", op |-> "none", arg |-> Null, loc |-> Null]
NoResponse == [op |-> "none", arg |-> Null, loc |-> Null, resp |-> Null]
\* the line the new process logs when it listens
ServerRunning == [op |-> "listen", arg |-> Null, loc |-> Null, resp |-> Null]

\* the storage directory: there, creatable by mkdir -p, or not creatable
Dirs == {"exists", "missing", "uncreatable"}

\* a process that listens; initialized holds what VaultService.initialize has
\* prepared ("sdk", "storage")
Listening(dir) == [pc |-> "listening", dir |-> dir, initialized |-> {}, exitCode |-> 0]
NotStarted(dir) == [pc |-> "start", dir |-> dir, initialized |-> {}, exitCode |-> 0]

\* the server runs and its storage directory exists
Init ==
    /\ isTestMode \in BOOLEAN
    /\ proc = Listening("exists")
    /\ store = [v \in VaultIds |-> Null]
    /\ exports = [v \in VaultIds |-> Null]
    /\ vaults = [v \in VaultIds |-> Null]
    /\ secureVaultSessions = [v \in VaultIds |-> Null]
    /\ req = [r \in Slots |-> IdleSlot]
    /\ out = NoResponse
    /\ issued = {}
    /\ created = {}

\* ------------------------------------------------------ request plumbing
\* as Free, a request received only when no pairing ceremony waits for the SDK
Free_ceremonyBlocks(r) ==
    /\ proc.pc = "listening"
    /\ req[r].pc = "idle"
    /\ \A q \in Slots : q < r => req[q].pc # "idle"
    /\ \A q \in Slots : req[q].pc # "cs_sdk"

\* a listening process receives requests; they take the lowest free slot
\* (slots are interchangeable)
Free(r) ==
    /\ proc.pc = "listening"
    /\ req[r].pc = "idle"
    /\ \A q \in Slots : q < r => req[q].pc # "idle"

\* a request is received into slot r: the route's synchronous prefix has run
\* and the handler waits at its first await
Accept(r, op, arg, pc, loc) ==
    /\ Free(r)
    /\ req' = [req EXCEPT ![r] = [pc |-> pc, op |-> op, arg |-> arg, loc |-> loc]]
    /\ out' = NoResponse

\* res.status(..).json(..): the request is answered and leaves its slot
Respond(r, loc, resp) ==
    /\ req' = [req EXCEPT ![r] = IdleSlot]
    /\ out' = [op |-> req[r].op, arg |-> req[r].arg, loc |-> loc, resp |-> resp]

\* as asyncHandler, without the catch: the rejection is handled by nobody and
\* the request is never answered
asyncHandler_noCatch(r, loc, err) ==
    /\ req' = [req EXCEPT ![r].pc = "rejected", ![r].loc = loc]
    /\ out' = NoResponse

\* asyncHandler: a rejected handler promise goes to errorHandler
asyncHandler(r, loc, err) == Respond(r, loc, errorHandler(err))

\* the handler answers, or throws, before its first await
Immediate(r, op, arg, loc, resp) ==
    /\ Free(r)
    /\ UNCHANGED req
    /\ out' = [op |-> op, arg |-> arg, loc |-> loc, resp |-> resp]

Goto(r, pc, loc) ==
    /\ req' = [req EXCEPT ![r].pc = pc, ![r].loc = loc]
    /\ out' = NoResponse

\* -------------------------------------------------------- FileStorage ops
\* getVaultMetadata: the parsed record, or null on ENOENT
getVaultMetadata(vaultId) == store[vaultId]

\* saveVaultMetadata: overwrite the file of metadata.vaultId
saveVaultMetadata(metadata) ==
    /\ proc.dir = "exists"
    /\ store' = [store EXCEPT ![metadata.vaultId] = metadata]

\* getVaultExport: the content of the backup file, or null on ENOENT
getVaultExport(vaultId) == exports[vaultId]

\* as saveVaultExport, one backup file for all vaults
saveVaultExport_oneFile(vaultId, exportData) ==
    /\ proc.dir = "exists"
    /\ exports' = [v \in VaultIds |-> exportData]

\* saveVaultExport: overwrite the backup file of vaultId
saveVaultExport(vaultId, exportData) ==
    /\ proc.dir = "exists"
    /\ exports' = [exports EXCEPT ![vaultId] = exportData]

\* new Date().toISOString(): logical time, which advances with every vault
\* the SDK creates
Now == Cardinality(issued)

\* as updateVaultMetadata_read, a missing record taken as an empty one
updateVaultMetadata_read_upsert(r) ==
    /\ req[r].pc = "upd_read"
    /\ LET vaultId == req[r].arg.vaultId
           metadata == getVaultMetadata(vaultId)
       IN Goto(r, "upd_write",
               [req[r].loc EXCEPT !.updated =
                   Merge(IF metadata = Null THEN [vaultId |-> vaultId] ELSE metadata,
                         req[r].loc.updates)])
    /\ UNCHANGED <<isTestMode, proc, store, exports, vaults, secureVaultSessions, issued, created>>

\* updateVaultMetadata, first await: the record is read; without a record the
\* call throws, otherwise the merged record is handed to saveVaultMetadata
updateVaultMetadata_read(r) ==
    /\ req[r].pc = "upd_read"
    /\ LET vaultId == req[r].arg.vaultId
           metadata == getVaultMetadata(vaultId)
       IN IF metadata = Null
          THEN asyncHandler(r, Null, Error(ErrUpdateNotFound))
          ELSE Goto(r, "upd_write",
                    [req[r].loc EXCEPT !.updated = Merge(metadata, req[r].loc.updates)])
    /\ UNCHANGED <<isTestMode, proc, store, exports, vaults, secureVaultSessions, issued, created>>

\* as updateVaultMetadata_written, the updates merged into the record as it
\* is when the write happens (compare-and-swap)
updateVaultMetadata_written_current(r) ==
    /\ req[r].pc = "upd_write"
    /\ store[req[r].arg.vaultId] # Null
    /\ saveVaultMetadata(Merge(store[req[r].arg.vaultId], req[r].loc.updates))
    /\ IF req[r].op = "verifyVault"
       THEN /\ vaults' = [vaults EXCEPT ![req[r].arg.vaultId] = req[r].loc.vault]
            /\ Respond(r, Null, Success(200, Null))
       ELSE /\ UNCHANGED vaults
            /\ Respond(r, Null,
                       Success(200, [chain |-> req[r].arg.chain, address |-> req[r].loc.address]))
    /\ UNCHANGED <<isTestMode, proc, exports, secureVaultSessions, issued, created>>

\* updateVaultMetadata, second await: the merged record is written; then the
\* caller continues: verifyVault caches the handle, getAddress returns
updateVaultMetadata_written(r) ==
    /\ req[r].pc = "upd_write"
    /\ saveVaultMetadata(req[r].loc.updated)
    /\ IF req[r].op = "verifyVault"
       THEN /\ vaults' = [vaults EXCEPT ![req[r].arg.vaultId] = req[r].loc.vault]
            /\ Respond(r, Null, Success(200, Null))
       ELSE /\ UNCHANGED vaults
            /\ Respond(r, Null,
                       Success(200, [chain |-> req[r].arg.chain, address |-> req[r].loc.address]))
    /\ UNCHANGED <<isTestMode, proc, exports, secureVaultSessions, issued, created>>

updateVaultMetadata_writeFailed(r) ==
    /\ req[r].pc = "upd_write"
    /\ asyncHandler(r, Null, Error(ErrIo))
    /\ UNCHANGED <<isTestMode, proc, store, exports, vaults, secureVaultSessions, issued, created>>

\* ---------------------------------------------------- POST /api/vaults/fast
createFastVault_start(r, body) ==
    /\ UNCHANGED <<isTestMode, proc, store, exports, vaults, secureVaultSessions, issued, created>>
    /\ IF ~TruthyStr(body, "name") \/ ~TruthyStr(body, "email") \/ ~TruthyStr(body, "password")
       THEN Immediate(r, "createFastVault", body, Null,
                      errorHandler(AppError("Missing required fields: name, email, password", 400)))
       ELSE Accept(r, "createFastVault", body, "cf_sdk", Null)

\* as createFastVault_sdkResolved, the record written as verified
createFastVault_sdkResolved_verified(r, vaultId) ==
    /\ req[r].pc = "cf_sdk"
    /\ vaultId \in VaultIds \ issued
    /\ issued' = issued \cup {vaultId}
    /\ LET body == req[r].arg
           metadata == [vaultId |-> vaultId, name |-> body.name, email |-> body.email,
                        createdAt |-> Now, verified |-> TRUE]
                       @@ (IF Has(body, "userId") THEN [userId |-> body.userId] ELSE <<>>)
       IN Goto(r, "cf_save", [vaultId |-> vaultId, metadata |-> metadata])
    /\ UNCHANGED <<isTestMode, proc, store, exports, vaults, secureVaultSessions, created>>

\* sdk.createFastVault resolves with a new vault id; saveVaultMetadata is started
createFastVault_sdkResolved(r, vaultId) ==
    /\ req[r].pc = "cf_sdk"
    /\ vaultId \in VaultIds \ issued
    /\ issued' = issued \cup {vaultId}
    /\ LET body == req[r].arg
           metadata == [vaultId |-> vaultId, name |-> body.name, email |-> body.email,
                        createdAt |-> Now, verified |-> FALSE]
                       @@ (IF Has(body, "userId") THEN [userId |-> body.userId] ELSE <<>>)
       IN Goto(r, "cf_save", [vaultId |-> vaultId, metadata |-> metadata])
    /\ UNCHANGED <<isTestMode, proc, store, exports, vaults, secureVaultSessions, created>>

createFastVault_sdkRejected(r) ==
    /\ req[r].pc = "cf_sdk"
    /\ asyncHandler(r, Null, Error(ErrSdk))
    /\ UNCHANGED <<isTestMode, proc, store, exports, vaults, secureVaultSessions, issued, created>>

\* the metadata file is written; the call returns { vaultId }
createFastVault_saved(r) ==
    /\ req[r].pc = "cf_save"
    /\ saveVaultMetadata(req[r].loc.metadata)
    /\ created' = created \cup {req[r].loc.vaultId}
    /\ Respond(r, Null, Success(201, [vaultId |-> req[r].loc.vaultId]))
    /\ UNCHANGED <<isTestMode, proc, exports, vaults, secureVaultSessions, issued>>

createFastVault_saveFailed(r) ==
    /\ req[r].pc = "cf_save"
    /\ asyncHandler(r, Null, Error(ErrIo))
    /\ UNCHANGED <<isTestMode, proc, store, exports, vaults, secureVaultSessions, issued, created>>

\* ------------------------------------------- POST /api/vaults/:vaultId/verify
VerifyLoc(vault) == [vault |-> vault, updates |-> [verified |-> TRUE], updated |-> Null]

\* as verifyVault_start, the bypass taken for the test code in every mode
verifyVault_start_anyMode(r, vaultId, body) ==
    /\ UNCHANGED <<isTestMode, proc, store, exports, vaults, secureVaultSessions, issued, created>>
    /\ LET arg == [vaultId |-> vaultId] @@ body
       IN IF ~TruthyStr(body, "verificationCode")
          THEN Immediate(r, "verifyVault", arg, Null,
                         errorHandler(AppError("Verification code is required", 400)))
          ELSE IF body.verificationCode = TEST_VERIFICATION_CODE
               THEN Accept(r, "verifyVault", arg, "vv_test_read", Null)
               ELSE Accept(r, "verifyVault", arg, "vv_sdk", Null)

\* the plain VaultService: verifyVault always asks the SDK
verifyVault_start_plain(r, vaultId, body) ==
    /\ UNCHANGED <<isTestMode, proc, store, exports, vaults, secureVaultSessions, issued, created>>
    /\ LET arg == [vaultId |-> vaultId] @@ body
       IN IF ~TruthyStr(body, "verificationCode")
          THEN Immediate(r, "verifyVault", arg, Null,
                         errorHandler(AppError("Verification code is required", 400)))
          ELSE Accept(r, "verifyVault", arg, "vv_sdk", Null)

\* as verifyVault_start, without the TEST_MODE branch
verifyVault_start_noBypass(r, vaultId, body) ==
    /\ UNCHANGED <<isTestMode, proc, store, exports, vaults, secureVaultSessions, issued, created>>
    /\ LET arg == [vaultId |-> vaultId] @@ body
       IN IF ~TruthyStr(body, "verificationCode")
          THEN Immediate(r, "verifyVault", arg, Null,
                         errorHandler(AppError("Verification code is required", 400)))
          ELSE Accept(r, "verifyVault", arg, "vv_sdk", Null)

verifyVault_start(r, vaultId, body) ==
    /\ UNCHANGED <<isTestMode, proc, store, exports, vaults, secureVaultSessions, issued, created>>
    /\ LET arg == [vaultId |-> vaultId] @@ body
       IN IF ~TruthyStr(body, "verificationCode")
          THEN Immediate(r, "verifyVault", arg, Null,
                         errorHandler(AppError("Verification code is required", 400)))
          ELSE IF isTestMode /\ body.verificationCode = TEST_VERIFICATION_CODE
               THEN Accept(r, "verifyVault", arg, "vv_test_read", Null)
               ELSE Accept(r, "verifyVault", arg, "vv_sdk", Null)

\* TEST_MODE bypass: the record is looked up locally, the SDK is not called
verifyVault_testRead(r) ==
    /\ req[r].pc = "vv_test_read"
    /\ IF getVaultMetadata(req[r].arg.vaultId) = Null
       THEN asyncHandler(r, Null, Error(ErrVaultNotFound))
       ELSE Goto(r, "upd_read", VerifyLoc(TestVault))
    /\ UNCHANGED <<isTestMode, proc, store, exports, vaults, secureVaultSessions, issued, created>>

\* as verifyVault_sdkResolved, the handle cached before the record is updated
verifyVault_sdkResolved_cachedFirst(r, vault) ==
    /\ req[r].pc = "vv_sdk"
    /\ vault \in FastVaultHandles
    /\ vaults' = [vaults EXCEPT ![req[r].arg.vaultId] = vault]
    /\ Goto(r, "upd_read", VerifyLoc(vault))
    /\ UNCHANGED <<isTestMode, proc, store, exports, secureVaultSessions, issued, created>>

\* sdk.verifyVault resolves with a live handle; updateVaultMetadata is started
verifyVault_sdkResolved(r, vault) ==
    /\ req[r].pc = "vv_sdk"
    /\ vault \in FastVaultHandles
    /\ Goto(r, "upd_read", VerifyLoc(vault))
    /\ UNCHANGED <<isTestMode, proc, store, exports, vaults, secureVaultSessions, issued, created>>

\* as verifyVault_sdkRejected, the record marked verified although the SDK refused
verifyVault_sdkRejected_marked(r) ==
    /\ req[r].pc = "vv_sdk"
    /\ asyncHandler(r, Null, Error(ErrSdk))
    /\ LET vaultId == req[r].arg.vaultId
       IN store' = IF store[vaultId] = Null THEN store
                   ELSE [store EXCEPT ![vaultId] = Merge(store[vaultId], [verified |-> TRUE])]
    /\ UNCHANGED <<isTestMode, proc, exports, vaults, secureVaultSessions, issued, created>>

\* sdk.verifyVault rejects (wrong code): the error goes to the error handler
verifyVault_sdkRejected(r) ==
    /\ req[r].pc = "vv_sdk"
    /\ asyncHandler(r, Null, Error(ErrSdk))
    /\ UNCHANGED <<isTestMode, proc, store, exports, vaults, secureVaultSessions, issued, created>>

\* ------------------------------------ GET /api/vaults/:vaultId/address/:chain
getAddress_start(r, vaultId, chain) ==
    /\ UNCHANGED <<isTestMode, proc, store, exports, vaults, secureVaultSessions, issued, created>>
    /\ LET arg == [vaultId |-> vaultId, chain |-> chain]
           vault == vaults[vaultId]
       IN IF vault = Null
          THEN Accept(r, "getAddress", arg, "ga_check", [vault |-> Null])
          ELSE Accept(r, "getAddress", arg, "ga_address", [vault |-> vault])

\* as getAddress_noHandle, the verified flag of the record not looked at
getAddress_noHandle_flagIgnored(r) ==
    /\ req[r].pc = "ga_check"
    /\ LET metadata == getVaultMetadata(req[r].arg.vaultId)
           loc == [vault |-> Null, metadata |-> metadata]
       IN IF metadata = Null
          THEN asyncHandler(r, loc, Error(ErrNotFoundOrNotVerified))
          ELSE asyncHandler(r, loc, Error(ErrNotLoadedReverify))
    /\ UNCHANGED <<isTestMode, proc, store, exports, vaults, secureVaultSessions, issued, created>>

\* no handle: the record decides which error is thrown
getAddress_noHandle(r) ==
    /\ req[r].pc = "ga_check"
    /\ LET metadata == getVaultMetadata(req[r].arg.vaultId)
           loc == [vault |-> Null, metadata |-> metadata]
       IN IF metadata = Null \/ ~metadata.verified
          THEN asyncHandler(r, loc, Error(ErrNotFoundOrNotVerified))
          ELSE asyncHandler(r, loc, Error(ErrNotLoadedReverify))
    /\ UNCHANGED <<isTestMode, proc, store, exports, vaults, secureVaultSessions, issued, created>>

\* vault.address(chain) resolves; getVaultMetadata is started
getAddress_addressResolved(r) ==
    /\ req[r].pc = "ga_address"
    /\ Goto(r, "ga_read", [vault |-> req[r].loc.vault, address |-> "addr"])
    /\ UNCHANGED <<isTestMode, proc, store, exports, vaults, secureVaultSessions, issued, created>>

\* vault.address(chain) rejects (the TestVault never does)
getAddress_addressRejected(r) ==
    /\ req[r].pc = "ga_address"
    /\ req[r].loc.vault.kind # "test"
    /\ asyncHandler(r, Null, Error(ErrSdk))
    /\ UNCHANGED <<isTestMode, proc, store, exports, vaults, secureVaultSessions, issued, created>>

\* the record is read; with a record the chain is added to its chains and
\* updateVaultMetadata is started, without one the address is returned
getAddress_read(r) ==
    /\ req[r].pc = "ga_read"
    /\ LET metadata == getVaultMetadata(req[r].arg.vaultId)
       IN IF metadata # Null
          THEN Goto(r, "upd_read",
                    [vault |-> req[r].loc.vault, address |-> req[r].loc.address,
                     updates |-> [chains |-> SetAdd(ChainsOrEmpty(metadata), req[r].arg.chain)],
                     updated |-> Null])
          ELSE Respond(r, Null,
                       Success(200, [chain |-> req[r].arg.chain, address |-> req[r].loc.address]))
    /\ UNCHANGED <<isTestMode, proc, store, exports, vaults, secureVaultSessions, issued, created>>


\* --------------------------------------------- POST /api/vaults/:vaultId/sign
\* as signTransaction_start, the body not validated
signTransaction_start_unvalidated(r, vaultId, body) ==
    /\ UNCHANGED <<isTestMode, proc, store, exports, vaults, secureVaultSessions, issued, created>>
    /\ LET arg == [vaultId |-> vaultId] @@ body
           vault == vaults[vaultId]
       IN IF vault = Null
          THEN Immediate(r, "signTransaction", arg, Null,
                         errorHandler(Error(ErrNotLoadedVerify)))
          ELSE Accept(r, "signTransaction", arg, "st_sign", [vault |-> vault])

signTransaction_start(r, vaultId, body) ==
    /\ UNCHANGED <<isTestMode, proc, store, exports, vaults, secureVaultSessions, issued, created>>
    /\ LET arg == [vaultId |-> vaultId] @@ body
           vault == vaults[vaultId]
       IN IF ~TruthyStr(body, "transaction")
          THEN Immediate(r, "signTransaction", arg, Null,
                         errorHandler(AppError("Transaction payload is required", 400)))
          ELSE IF vault = Null
               THEN Immediate(r, "signTransaction", arg, Null,
                              errorHandler(Error(ErrNotLoadedVerify)))
               ELSE Accept(r, "signTransaction", arg, "st_sign", [vault |-> vault])

\* vault.sign resolves (the TestVault never signs)
signTransaction_signResolved(r) ==
    /\ req[r].pc = "st_sign"
    /\ req[r].loc.vault.kind # "test"
    /\ Respond(r, Null, Success(200, [signature |-> "sig"]))
    /\ UNCHANGED <<isTestMode, proc, store, exports, vaults, secureVaultSessions, issued, created>>

signTransaction_signRejected(r) ==
    /\ req[r].pc = "st_sign"
    /\ asyncHandler(r, Null,
                    Error(IF req[r].loc.vault.kind = "test" THEN ErrTestSign ELSE ErrSdk))
    /\ UNCHANGED <<isTestMode, proc, store, exports, vaults, secureVaultSessions, issued, created>>

\* ------------------------------------------- POST /api/vaults/:vaultId/export
\* as exportVault_start, `'export' in vault` evaluated before `!vault`
exportVault_start_inFirst(r, vaultId, body) ==
    /\ UNCHANGED <<isTestMode, proc, store, exports, vaults, secureVaultSessions, issued, created>>
    /\ LET arg == [vaultId |-> vaultId] @@ body
           vault == vaults[vaultId]
       IN IF ~TruthyStr(body, "password")
          THEN Immediate(r, "exportVault", arg, Null,
                         errorHandler(AppError("Password is required for export", 400)))
          ELSE IF vault = Null
               THEN Immediate(r, "exportVault", arg, Null,
                              errorHandler(Error("Cannot use 'in' operator to search for 'export' in undefined")))
               ELSE IF ~vault.export
                    THEN Immediate(r, "exportVault", arg, Null,
                                   errorHandler(Error(ErrNoExport)))
                    ELSE Accept(r, "exportVault", arg, "ev_export", [vault |-> vault])

exportVault_start(r, vaultId, body) ==
    /\ UNCHANGED <<isTestMode, proc, store, exports, vaults, secureVaultSessions, issued, created>>
    /\ LET arg == [vaultId |-> vaultId] @@ body
           vault == vaults[vaultId]
       IN IF ~TruthyStr(body, "password")
          THEN Immediate(r, "exportVault", arg, Null,
                         errorHandler(AppError("Password is required for export", 400)))
          ELSE IF vault = Null
               THEN Immediate(r, "exportVault", arg, Null,
                              errorHandler(Error(ErrNotLoaded)))
               ELSE IF ~vault.export
                    THEN Immediate(r, "exportVault", arg, Null,
                                   errorHandler(Error(ErrNoExport)))
                    ELSE Accept(r, "exportVault", arg, "ev_export", [vault |-> vault])

\* exportAsBase64 resolves with a blob; saveVaultExport is started
exportVault_exportResolved(r, exportData) ==
    /\ req[r].pc = "ev_export"
    /\ Goto(r, "ev_save", [vault |-> req[r].loc.vault, exportData |-> exportData])
    /\ UNCHANGED <<isTestMode, proc, store, exports, vaults, secureVaultSessions, issued, created>>

exportVault_exportRejected(r) ==
    /\ req[r].pc = "ev_export"
    /\ req[r].loc.vault.kind # "test"
    /\ asyncHandler(r, Null, Error(ErrSdk))
    /\ UNCHANGED <<isTestMode, proc, store, exports, vaults, secureVaultSessions, issued, created>>

exportVault_saved(r) ==
    /\ req[r].pc = "ev_save"
    /\ saveVaultExport(req[r].arg.vaultId, req[r].loc.exportData)
    /\ Respond(r, Null, Success(200, [backup |-> req[r].loc.exportData]))
    /\ UNCHANGED <<isTestMode, proc, store, vaults, secureVaultSessions, issued, created>>

exportVault_saveFailed(r) ==
    /\ req[r].pc = "ev_save"
    /\ asyncHandler(r, Null, Error(ErrIo))
    /\ UNCHANGED <<isTestMode, proc, store, exports, vaults, secureVaultSessions, issued, created>>

\* -------------------------------------------------- GET /api/vaults/:vaultId
getVaultMetadata_start(r, vaultId) ==
    /\ UNCHANGED <<isTestMode, proc, store, exports, vaults, secureVaultSessions, issued, created>>
    /\ Accept(r, "getVaultMetadata", [vaultId |-> vaultId], "gm_read", Null)

getVaultMetadata_read(r) ==
    /\ req[r].pc = "gm_read"
    /\ LET metadata == getVaultMetadata(req[r].arg.vaultId)
       IN IF metadata = Null
          THEN asyncHandler(r, [metadata |-> Null], AppError(ErrVaultNotFound, 404))
          ELSE Respond(r, [metadata |-> metadata], Success(200, metadata))
    /\ UNCHANGED <<isTestMode, proc, store, exports, vaults, secureVaultSessions, issued, created>>

\* ------------------------------------------------------------ GET /api/vaults
\* the filter of listVaults: `if (userId)` is false for undefined and for ""
ListFilter(vs, query) ==
    IF TruthyStr(query, "userId")
    THEN {m \in vs : Has(m, "userId") /\ m.userId = query.userId}
    ELSE vs

listVaults_start(r, query) ==
    /\ UNCHANGED <<isTestMode, proc, store, exports, vaults, secureVaultSessions, issued, created>>
    /\ Accept(r, "listVaults", query, "lv_readdir", Null)

\* readdir resolves: the *.meta.json files; one readFile per file is started
listVaults_readdir(r) ==
    /\ req[r].pc = "lv_readdir"
    /\ LET files == {v \in VaultIds : store[v] # Null}
       IN IF files = {}
          THEN Respond(r, [files |-> {}, vaults |-> {}], Success(200, [vaults |-> {}]))
          ELSE Goto(r, "lv_read", [files |-> files, vaults |-> {}, todo |-> files])
    /\ UNCHANGED <<isTestMode, proc, store, exports, vaults, secureVaultSessions, issued, created>>

\* one of the pending readFile calls resolves; after the last one Promise.all
\* resolves and the filtered records are returned
listVaults_readFile(r, file) ==
    /\ req[r].pc = "lv_read"
    /\ file \in req[r].loc.todo
    /\ LET vs == req[r].loc.vaults \cup {store[file]}
           todo == req[r].loc.todo \ {file}
       IN IF todo = {}
          THEN Respond(r, [files |-> req[r].loc.files, vaults |-> vs],
                       Success(200, [vaults |-> ListFilter(vs, req[r].arg)]))
          ELSE Goto(r, "lv_read", [files |-> req[r].loc.files, vaults |-> vs, todo |-> todo])
    /\ UNCHANGED <<isTestMode, proc, store, exports, vaults, secureVaultSessions, issued, created>>

\* ------------------------------------------------------------- read faults
ErrRead == "read failed"

\* as listVaults_failed, the records read before the failure returned
listVaults_failed_partial(r) ==
    /\ req[r].pc \in {"lv_readdir", "lv_read"}
    /\ LET vs == IF req[r].pc = "lv_read" THEN req[r].loc.vaults ELSE {}
       IN Respond(r, [files |-> {}, vaults |-> {}, error |-> Error(ErrRead)],
                  Success(200, [vaults |-> ListFilter(vs, req[r].arg)]))
    /\ UNCHANGED <<isTestMode, proc, store, exports, vaults, secureVaultSessions, issued, created>>

\* FileStorage.listVaults: readdir, a readFile or JSON.parse throws; the catch
\* block logs the error and returns [], which the route answers as a success
listVaults_failed(r) ==
    /\ req[r].pc \in {"lv_readdir", "lv_read"}
    /\ Respond(r, [files |-> {}, vaults |-> {}, error |-> Error(ErrRead)],
               Success(200, [vaults |-> {}]))
    /\ UNCHANGED <<isTestMode, proc, store, exports, vaults, secureVaultSessions, issued, created>>

\* FileStorage.getVaultMetadata: reading or parsing an existing record file
\* fails with something other than ENOENT, which is re-thrown
getVaultMetadata_readFailed(r) ==
    /\ req[r].pc \in {"gm_read", "ga_check", "ga_read", "upd_read", "vv_test_read"}
    /\ store[req[r].arg.vaultId] # Null
    /\ asyncHandler(r, Null, Error(ErrRead))
    /\ UNCHANGED <<isTestMode, proc, store, exports, vaults, secureVaultSessions, issued, created>>

\* -------------------------------------------------- POST /api/vaults/secure
\* as createSecureVault_start, without the threshold check
createSecureVault_start_anyThreshold(r, body) ==
    /\ UNCHANGED <<isTestMode, proc, store, exports, vaults, secureVaultSessions, issued, created>>
    /\ IF ~TruthyStr(body, "name") \/ ~TruthyNum(body, "devices") \/ ~TruthyNum(body, "threshold")
       THEN Immediate(r, "createSecureVault", body, Null,
                      errorHandler(AppError("Missing required fields: name, devices, threshold", 400)))
       ELSE Accept(r, "createSecureVault", body, "cs_sdk",
                   [currentSession |->
                       [vaultId |-> "", sessionId |-> "", qrCode |-> "",
                        devicesJoined |-> 0, devicesRequired |-> body.devices,
                        status |-> "pending"],
                    callbacks |-> 0])

createSecureVault_start(r, body) ==
    /\ UNCHANGED <<isTestMode, proc, store, exports, vaults, secureVaultSessions, issued, created>>
    /\ IF ~TruthyStr(body, "name") \/ ~TruthyNum(body, "devices") \/ ~TruthyNum(body, "threshold")
       THEN Immediate(r, "createSecureVault", body, Null,
                      errorHandler(AppError("Missing required fields: name, devices, threshold", 400)))
       ELSE IF body.threshold > body.devices
            THEN Immediate(r, "createSecureVault", body, Null,
                           errorHandler(AppError("Threshold cannot exceed number of devices", 400)))
            ELSE Accept(r, "createSecureVault", body, "cs_sdk",
                        [currentSession |->
                            [vaultId |-> "", sessionId |-> "", qrCode |-> "",
                             devicesJoined |-> 0, devicesRequired |-> body.devices,
                             status |-> "pending"],
                         callbacks |-> 0])

\* a callback of the ceremony in flight has run and left session
Callback(r, session) ==
    /\ Goto(r, "cs_sdk", [currentSession |-> session, callbacks |-> req[r].loc.callbacks + 1])
    /\ UNCHANGED <<isTestMode, proc, store, exports, vaults, secureVaultSessions, issued, created>>

onQRCodeReady(r, qrPayload) ==
    /\ req[r].pc = "cs_sdk"
    /\ req[r].loc.callbacks < MaxCallbacks
    /\ Callback(r, [req[r].loc.currentSession EXCEPT !.qrCode = qrPayload])

\* as onDeviceJoined, the status recomputed from the count on every call
onDeviceJoined_recomputed(r, totalJoined, required) ==
    /\ req[r].pc = "cs_sdk"
    /\ req[r].loc.callbacks < MaxCallbacks
    /\ Callback(r, [req[r].loc.currentSession EXCEPT
                       !.devicesJoined = totalJoined,
                       !.status = IF totalJoined = required THEN "ready" ELSE "pending"])

onDeviceJoined(r, totalJoined, required) ==
    /\ req[r].pc = "cs_sdk"
    /\ req[r].loc.callbacks < MaxCallbacks
    /\ Callback(r, [req[r].loc.currentSession EXCEPT
                       !.devicesJoined = totalJoined,
                       !.status = IF totalJoined = required THEN "ready" ELSE @])

\* onProgress only logs
onProgress(r) ==
    /\ req[r].pc = "cs_sdk"
    /\ req[r].loc.callbacks < MaxCallbacks
    /\ Callback(r, req[r].loc.currentSession)

\* as createSecureVault_sdkResolved, the session not recorded in the map
createSecureVault_sdkResolved_noSession(r, vaultId, vault) ==
    /\ req[r].pc = "cs_sdk"
    /\ vaultId \in VaultIds \ issued
    /\ vault \in SecureVaultHandles
    /\ issued' = issued \cup {vaultId}
    /\ LET body == req[r].arg
           session == [req[r].loc.currentSession EXCEPT !.vaultId = vaultId, !.sessionId = "session"]
           metadata == [vaultId |-> vaultId, name |-> body.name, email |-> "",
                        createdAt |-> Now, verified |-> TRUE]
                       @@ (IF Has(body, "userId") THEN [userId |-> body.userId] ELSE <<>>)
       IN Goto(r, "cs_save", [currentSession |-> session, vaultId |-> vaultId,
                              vault |-> vault, metadata |-> metadata])
    /\ UNCHANGED <<isTestMode, proc, store, exports, vaults, secureVaultSessions, created>>

\* sdk.createSecureVault resolves: the session is completed and recorded,
\* saveVaultMetadata is started
createSecureVault_sdkResolved(r, vaultId, vault) ==
    /\ req[r].pc = "cs_sdk"
    /\ vaultId \in VaultIds \ issued
    /\ vault \in SecureVaultHandles
    /\ issued' = issued \cup {vaultId}
    /\ LET body == req[r].arg
           session == [req[r].loc.currentSession EXCEPT !.vaultId = vaultId, !.sessionId = "session"]
           metadata == [vaultId |-> vaultId, name |-> body.name, email |-> "",
                        createdAt |-> Now, verified |-> TRUE]
                       @@ (IF Has(body, "userId") THEN [userId |-> body.userId] ELSE <<>>)
       IN /\ secureVaultSessions' = [secureVaultSessions EXCEPT ![vaultId] = session]
          /\ Goto(r, "cs_save", [currentSession |-> session, vaultId |-> vaultId,
                                 vault |-> vault, metadata |-> metadata])
    /\ UNCHANGED <<isTestMode, proc, store, exports, vaults, created>>

createSecureVault_sdkRejected(r) ==
    /\ req[r].pc = "cs_sdk"
    /\ asyncHandler(r, Null, Error(ErrSdk))
    /\ UNCHANGED <<isTestMode, proc, store, exports, vaults, secureVaultSessions, issued, created>>

\* as createSecureVault_saved, the handle not cached
createSecureVault_saved_noHandle(r) ==
    /\ req[r].pc = "cs_save"
    /\ saveVaultMetadata(req[r].loc.metadata)
    /\ created' = created \cup {req[r].loc.vaultId}
    /\ Respond(r, Null, Success(201, req[r].loc.currentSession))
    /\ UNCHANGED <<isTestMode, proc, exports, vaults, secureVaultSessions, issued>>

\* the metadata file is written, the handle is cached, the session is returned
createSecureVault_saved(r) ==
    /\ req[r].pc = "cs_save"
    /\ saveVaultMetadata(req[r].loc.metadata)
    /\ vaults' = [vaults EXCEPT ![req[r].loc.vaultId] = req[r].loc.vault]
    /\ created' = created \cup {req[r].loc.vaultId}
    /\ Respond(r, Null, Success(201, req[r].loc.currentSession))
    /\ UNCHANGED <<isTestMode, proc, exports, secureVaultSessions, issued>>

createSecureVault_saveFailed(r) ==
    /\ req[r].pc = "cs_save"
    /\ asyncHandler(r, Null, Error(ErrIo))
    /\ UNCHANGED <<isTestMode, proc, store, exports, vaults, secureVaultSessions, issued, created>>

\* as getSecureVaultSession, a secure vault's session rebuilt from its
\* metadata record when the map has none
getSecureVaultSession_fromStore(r, vaultId) ==
    /\ UNCHANGED <<isTestMode, proc, store, exports, vaults, secureVaultSessions, issued, created>>
    /\ LET session == secureVaultSessions[vaultId]
           metadata == getVaultMetadata(vaultId)
       IN IF session # Null
          THEN Immediate(r, "getSecureVaultSession", [vaultId |-> vaultId], Null,
                         Success(200, session))
          ELSE IF metadata # Null /\ metadata.email = ""
               THEN Immediate(r, "getSecureVaultSession", [vaultId |-> vaultId], Null,
                              Success(200, [vaultId |-> vaultId, sessionId |-> "", qrCode |-> "",
                                            devicesJoined |-> 0, devicesRequired |-> 0,
                                            status |-> "ready"]))
               ELSE Immediate(r, "getSecureVaultSession", [vaultId |-> vaultId], Null,
                              errorHandler(AppError("Session not found", 404)))

\* ------------------------------------------ GET /api/vaults/:vaultId/session
getSecureVaultSession(r, vaultId) ==
    /\ UNCHANGED <<isTestMode, proc, store, exports, vaults, secureVaultSessions, issued, created>>
    /\ LET session == secureVaultSessions[vaultId]
       IN IF session = Null
          THEN Immediate(r, "getSecureVaultSession", [vaultId |-> vaultId], Null,
                         errorHandler(AppError("Session not found", 404)))
          ELSE Immediate(r, "getSecureVaultSession", [vaultId |-> vaultId], Null,
                         Success(200, session))

\* ------------------------------------------------------------ process start
\* main.ts startServer: the app is built and listens; VaultService.initialize
\* and FileStorage.initialize are called by nothing, so neither the SDK nor
\* the storage directory is prepared
startServer ==
    /\ proc.pc = "start"
    /\ proc' = [proc EXCEPT !.pc = "listening"]
    /\ out' = ServerRunning
    /\ UNCHANGED <<isTestMode, store, exports, vaults, secureVaultSessions, req, issued, created>>

\* ------------------------------------------------------------ process restart
\* as Restart, the handle map kept
Restart_keepsHandles ==
    /\ secureVaultSessions' = [v \in VaultIds |-> Null]
    /\ req' = [r \in Slots |-> IdleSlot]
    /\ out' = ServerRunning
    /\ UNCHANGED <<isTestMode, proc, store, exports, vaults, issued, created>>

\* the process ends and starts again: both maps of the new VaultService are
\* empty, the requests in flight are gone, the files stay
Restart ==
    /\ vaults' = [v \in VaultIds |-> Null]
    /\ secureVaultSessions' = [v \in VaultIds |-> Null]
    /\ req' = [r \in Slots |-> IdleSlot]
    /\ out' = ServerRunning
    /\ UNCHANGED <<isTestMode, proc, store, exports, issued, created>>

\* ------------------------------------------------------------ specification
VerifyBodies == {<<>>} \cup {[verificationCode |-> c] : c \in Codes}
SignBodies == {<<>>, [transaction |-> "tx"]}
ExportBodies == {[password |-> ""], [password |-> "P"]}
Queries == OptUser

\* the steps that complete an awaited operation of a request that changes
\* the store or the maps; the SDK draws new vault ids from ids and handles
\* from fast and secure
ContinueWrite(r, ids, fast, secure) ==
    \/ \E v \in ids : createFastVault_sdkResolved(r, v)
    \/ createFastVault_sdkRejected(r)
    \/ createFastVault_saved(r)
    \/ createFastVault_saveFailed(r)
    \/ verifyVault_testRead(r)
    \/ \E h \in fast : verifyVault_sdkResolved(r, h)
    \/ verifyVault_sdkRejected(r)
    \/ updateVaultMetadata_read(r)
    \/ updateVaultMetadata_written(r)
    \/ updateVaultMetadata_writeFailed(r)
    \/ getAddress_noHandle(r)
    \/ getAddress_addressResolved(r)
    \/ getAddress_addressRejected(r)
    \/ getAddress_read(r)
    \/ \E b \in Blobs : exportVault_exportResolved(r, b)
    \/ exportVault_exportRejected(r)
    \/ exportVault_saved(r)
    \/ exportVault_saveFailed(r)
    \/ \E v \in ids, h \in secure : createSecureVault_sdkResolved(r, v, h)
    \/ createSecureVault_sdkRejected(r)
    \/ createSecureVault_saved(r)
    \/ createSecureVault_saveFailed(r)

\* the same for the requests that only read
ContinueRead(r) ==
    \/ signTransaction_signResolved(r)
    \/ signTransaction_signRejected(r)
    \/ getVaultMetadata_read(r)
    \/ listVaults_readdir(r)
    \/ \E f \in VaultIds : listVaults_readFile(r, f)

\* bodies that pass the validation of their route
ValidFast(b) == TruthyStr(b, "name") /\ TruthyStr(b, "email") /\ TruthyStr(b, "password")
ValidSecure(b) ==
    /\ TruthyStr(b, "name") /\ TruthyNum(b, "devices") /\ TruthyNum(b, "threshold")
    /\ b.threshold <= b.devices

\* requests that write, for the vault ids of targets, with bodies of the given sets
StartWrite(r, targets, fastBodies, secureBodies, verifyBodies, exportBodies) ==
    \/ \E body \in fastBodies : createFastVault_start(r, body)
    \/ \E body \in secureBodies : createSecureVault_start(r, body)
    \/ \E v \in targets, body \in verifyBodies : verifyVault_start(r, v, body)
    \/ \E v \in targets, c \in Chains : getAddress_start(r, v, c)
    \/ \E v \in targets, body \in exportBodies : exportVault_start(r, v, body)

\* requests that only read
StartRead(r, targets) ==
    \/ \E v \in targets, body \in SignBodies : signTransaction_start(r, v, body)
    \/ \E v \in targets : getVaultMetadata_start(r, v)
    \/ listVaults_start(r, <<>>)
    \/ \E v \in targets : getSecureVaultSession(r, v)

WithExport(handles) == {h \in handles : h.export}
NoUser(bodies) == {b \in bodies : ~Has(b, "userId")}

\* the lifecycle of one vault: well-formed requests of every routed
\* operation on it, interleaved, with restarts
Next ==
    \/ Restart
    \/ \E r \in Slots :
        \/ StartWrite(r, {"v1"},
                      {b \in NoUser(FastBodies) : ValidFast(b)},
                      {b \in NoUser(SecureBodies) : ValidSecure(b) /\ b.devices = 1},
                      {b \in VerifyBodies : TruthyStr(b, "verificationCode")},
                      {b \in ExportBodies : TruthyStr(b, "password")})
        \/ signTransaction_start(r, "v1", [transaction |-> "tx"])
        \/ getVaultMetadata_start(r, "v1")
        \/ listVaults_start(r, <<>>)
        \/ ContinueWrite(r, {"v1"}, WithExport(FastVaultHandles), WithExport(SecureVaultHandles))
        \/ ContinueRead(r)

Spec == Init /\ [][Next]_vars

\* every routed operation, one request at a time, with restarts; requests
\* may be malformed; the SDK creates one vault, the other id stays unknown
NextSeq ==
    \/ Restart
    \/ /\ \A r \in Slots : req[r].pc = "idle"
       /\ \/ StartWrite(1, VaultIds, NoUser(FastBodies),
                        {b \in NoUser(SecureBodies) : Has(b, "devices") /\ b.devices = 1},
                        VerifyBodies, ExportBodies)
          \/ StartRead(1, VaultIds)
    \/ ContinueWrite(1, {"v1"}, FastVaultHandles, SecureVaultHandles)
    \/ ContinueRead(1)

SpecSeq == Init /\ [][NextSeq]_vars

\* listing: vaults of several owners are created while lists are requested
NextList ==
    \/ Restart
    \/ \E r \in Slots :
        \/ \E body \in {b \in FastBodies : ValidFast(b)} : createFastVault_start(r, body)
        \/ \E v \in VaultIds : createFastVault_sdkResolved(r, v)
        \/ createFastVault_sdkRejected(r)
        \/ createFastVault_saved(r)
        \/ createFastVault_saveFailed(r)
        \/ \E q \in Queries : listVaults_start(r, q)
        \/ listVaults_readdir(r)
        \/ \E f \in VaultIds : listVaults_readFile(r, f)

SpecList == Init /\ [][NextList]_vars

\* the pairing ceremony of a secure vault, one at a time: the SDK delivers
\* callbacks, each device-joined callback with the required count of the
\* request, then resolves or rejects; sessions are queried meanwhile
NextCeremony ==
    \/ Restart
    \/ \E body \in {b \in NoUser(SecureBodies) : ValidSecure(b)} : createSecureVault_start(1, body)
    \/ onProgress(1)
    \/ onQRCodeReady(1, "qr")
    \/ \E t \in 0..MaxDevices : onDeviceJoined(1, t, req[1].arg.devices)
    \/ \E h \in WithExport(SecureVaultHandles) : createSecureVault_sdkResolved(1, "v1", h)
    \/ createSecureVault_sdkRejected(1)
    \/ createSecureVault_saved(1)
    \/ createSecureVault_saveFailed(1)
    \/ \E r \in Slots, v \in VaultIds : getSecureVaultSession(r, v)

SpecCeremony == Init /\ [][NextCeremony]_vars

\* every routed operation, one request at a time, where reading the record
\* files can fail as well
NextErrors ==
    \/ NextSeq
    \/ listVaults_failed(1)
    \/ getVaultMetadata_readFailed(1)

SpecErrors == Init /\ [][NextErrors]_vars

\* exports: secure vaults with and without export capability are created
\* and exported concurrently, the SDK returning different blobs
NextExport ==
    \/ Restart
    \/ \E r \in Slots :
        \/ createSecureVault_start(r, [name |-> "W", devices |-> 1, threshold |-> 1])
        \/ \E v \in VaultIds, h \in SecureVaultHandles : createSecureVault_sdkResolved(r, v, h)
        \/ createSecureVault_saved(r)
        \/ \E v \in VaultIds : exportVault_start(r, v, [password |-> "P"])
        \/ \E b \in Blobs \cup {Blob("blob2")} : exportVault_exportResolved(r, b)
        \/ exportVault_exportRejected(r)
        \/ exportVault_saved(r)
        \/ exportVault_saveFailed(r)

SpecExport == Init /\ [][NextExport]_vars

\* the process is started with the storage directory in any condition,
\* then vaults are created and listed
InitStartup ==
    /\ isTestMode \in BOOLEAN
    /\ proc \in {NotStarted(dir) : dir \in Dirs}
    /\ store = [v \in VaultIds |-> Null]
    /\ exports = [v \in VaultIds |-> Null]
    /\ vaults = [v \in VaultIds |-> Null]
    /\ secureVaultSessions = [v \in VaultIds |-> Null]
    /\ req = [r \in Slots |-> IdleSlot]
    /\ out = NoResponse
    /\ issued = {}
    /\ created = {}

NextStartup ==
    \/ startServer
    \/ \E r \in Slots :
        \/ \E body \in {b \in NoUser(FastBodies) : ValidFast(b)} : createFastVault_start(r, body)
        \/ createFastVault_sdkResolved(r, "v1")
        \/ createFastVault_sdkRejected(r)
        \/ createFastVault_saved(r)
        \/ createFastVault_saveFailed(r)
        \/ getVaultMetadata_start(r, "v1")
        \/ getVaultMetadata_read(r)
        \/ listVaults_start(r, <<>>)
        \/ listVaults_readdir(r)
        \/ \E f \in VaultIds : listVaults_readFile(r, f)

SpecStartup == InitStartup /\ [][NextStartup]_vars

\* sessions: secure vaults are paired and fast vaults created, concurrently
\* and with restarts, while sessions are queried for every id
NextSession ==
    \/ Restart
    \/ \E r \in Slots :
        \/ createSecureVault_start(r, [name |-> "W", devices |-> 1, threshold |-> 1])
        \/ onDeviceJoined(r, 1, 1)
        \/ \E v \in VaultIds, h \in WithExport(SecureVaultHandles) :
              createSecureVault_sdkResolved(r, v, h)
        \/ createSecureVault_sdkRejected(r)
        \/ createSecureVault_saved(r)
        \/ createSecureVault_saveFailed(r)
        \/ createFastVault_start(r, [name |-> "W", email |-> "e", password |-> "P"])
        \/ \E v \in VaultIds : createFastVault_sdkResolved(r, v)
        \/ createFastVault_saved(r)
        \/ \E v \in VaultIds : getSecureVaultSession(r, v)

SpecSession == Init /\ [][NextSession]_vars

\* listing as in NextList, where reading the record files can fail as well
NextListFaults ==
    \/ NextList
    \/ \E r \in Slots : listVaults_failed(r)

SpecListFaults == Init /\ [][NextListFaults]_vars

\* the awaited operation of the request in slot r returns, with a result or
\* an error, or the SDK delivers a callback of its ceremony
Continue(r) ==
    \/ ContinueWrite(r, {"v1"}, WithExport(FastVaultHandles), WithExport(SecureVaultHandles))
    \/ ContinueRead(r)
    \/ onDeviceJoined(r, 1, 1)

\* requests of every routed operation on one vault, interleaved, in a
\* process that keeps running; the callbacks of a ceremony are bounded
NextLive ==
    \E r \in Slots :
        \/ createFastVault_start(r, [name |-> "W", email |-> "e", password |-> "P"])
        \/ createSecureVault_start(r, [name |-> "W", devices |-> 1, threshold |-> 1])
        \/ verifyVault_start(r, "v1", [verificationCode |-> TEST_VERIFICATION_CODE])
        \/ getAddress_start(r, "v1", "Bitcoin")
        \/ exportVault_start(r, "v1", [password |-> "P"])
        \/ StartRead(r, {"v1"})
        \/ Continue(r)

\* every SDK call and file operation that was started returns eventually
SpecLive == Init /\ [][NextLive]_vars /\ \A r \in Slots : WF_vars(Continue(r))

\* the plain VaultService (no TEST_MODE branch, no TestVault): its methods
\* other than verifyVault have the text of the bypass-capable one
ContinueWritePlain(r, ids, fast, secure) ==
    \/ \E v \in ids : createFastVault_sdkResolved(r, v)
    \/ createFastVault_sdkRejected(r)
    \/ createFastVault_saved(r)
    \/ createFastVault_saveFailed(r)
    \/ \E h \in fast : verifyVault_sdkResolved(r, h)
    \/ verifyVault_sdkRejected(r)
    \/ updateVaultMetadata_read(r)
    \/ updateVaultMetadata_written(r)
    \/ updateVaultMetadata_writeFailed(r)
    \/ getAddress_noHandle(r)
    \/ getAddress_addressResolved(r)
    \/ getAddress_addressRejected(r)
    \/ getAddress_read(r)
    \/ \E b \in Blobs : exportVault_exportResolved(r, b)
    \/ exportVault_exportRejected(r)
    \/ exportVault_saved(r)
    \/ exportVault_saveFailed(r)
    \/ \E v \in ids, h \in secure : createSecureVault_sdkResolved(r, v, h)
    \/ createSecureVault_sdkRejected(r)
    \/ createSecureVault_saved(r)
    \/ createSecureVault_saveFailed(r)

StartWritePlain(r, targets, fastBodies, secureBodies, verifyBodies, exportBodies) ==
    \/ \E body \in fastBodies : createFastVault_start(r, body)
    \/ \E body \in secureBodies : createSecureVault_start(r, body)
    \/ \E v \in targets, body \in verifyBodies : verifyVault_start_plain(r, v, body)
    \/ \E v \in targets, c \in Chains : getAddress_start(r, v, c)
    \/ \E v \in targets, body \in exportBodies : exportVault_start(r, v, body)

\* the plain service under the requests and SDK results of NextSeq
NextSeqPlain ==
    \/ Restart
    \/ /\ \A r \in Slots : req[r].pc = "idle"
       /\ \/ StartWritePlain(1, VaultIds, NoUser(FastBodies),
                             {b \in NoUser(SecureBodies) : Has(b, "devices") /\ b.devices = 1},
                             VerifyBodies, ExportBodies)
          \/ StartRead(1, VaultIds)
    \/ ContinueWritePlain(1, {"v1"}, FastVaultHandles, SecureVaultHandles)
    \/ ContinueRead(1)

\* both services side by side: a step of either (the steps of the plain
\* service other than the start of its verifyVault are steps of NextSeq)
NextVariants ==
    \/ NextSeq
    \/ /\ \A r \in Slots : req[r].pc = "idle"
       /\ \E v \in VaultIds, body \in VerifyBodies : verifyVault_start_plain(1, v, body)

SpecVariants == Init /\ [][NextVariants]_vars

\* ------------------------------------------------------------------ claims
Record(v) == store[v] # Null
Verified(v) == Record(v) /\ store[v].verified
ChainSet(m) == Range(ChainsOrEmpty(m))
Responded == out.resp # Null

\* C1: a getAddress call that finds no live handle for its vault id takes no
\* other path than the record lookup, and that lookup answers with an error and
\* no address: "Vault not found or not verified" when there is no record or
\* the record is unverified, "Vault not loaded. Please re-verify the vault
\* first." when the record is verified; neither step changes the metadata
\* store or the handle map.
C1_GetAddressWithoutHandle ==
    [][\A r \in Slots :
        /\ (req[r].pc = "idle" /\ req'[r].op = "getAddress"
               /\ vaults[req'[r].arg.vaultId] = Null)
           => (req'[r].pc = "ga_check" /\ store' = store /\ vaults' = vaults)
        /\ (req[r].pc = "ga_check" /\ req'[r] # req[r] /\ out' # ServerRunning)
           => /\ out'.op = "getAddress" /\ out'.arg = req[r].arg
              /\ ~out'.resp.success /\ out'.resp.data = Null
              /\ out'.resp.error =
                    IF Verified(req[r].arg.vaultId)
                    THEN ErrNotLoadedReverify ELSE ErrNotFoundOrNotVerified
              /\ store' = store /\ vaults' = vaults
      ]_vars

C1_Witness ==
    /\ out.op = "getAddress" /\ Responded
    /\ out.resp.error = ErrNotLoadedReverify
    /\ Verified(out.arg.vaultId) /\ vaults[out.arg.vaultId] = Null

\* C2: once the stored record of a vault id has verified=true, every later
\* state of the store has a record for that id with verified=true.
C2_VerifiedNeverReverts ==
    [][\A v \in VaultIds : Verified(v) => Verified(v)']_vars

C2_Witness ==
    \E v \in VaultIds, r \in Slots :
        /\ Verified(v) /\ ChainSet(store[v]) # {}
        /\ req[r].pc = "upd_write" /\ req[r].arg.vaultId = v
        /\ req[r].loc.updated # store[v]

\* C3: a createFastVault that completes leaves its vault Created (record
\* with verified=false, no live handle); a vault leaves Created only in the
\* step in which a verifyVault on it succeeds, and that step both stores
\* verified=true and caches the handle; getAddress, signTransaction and
\* exportVault succeed only on a vault whose record is verified.
Created(v) == Record(v) /\ ~store[v].verified /\ vaults[v] = Null

Succeeded(o, ops) == o.resp # Null /\ o.op \in ops /\ o.resp.success

C3_CreatedUntilVerified ==
    [][\A v \in VaultIds :
        /\ (Succeeded(out', {"createFastVault"}) /\ out'.resp.data.vaultId = v)
           => Created(v)'
        /\ (Created(v) /\ ~Created(v)')
           => /\ Succeeded(out', {"verifyVault"}) /\ out'.arg.vaultId = v
              /\ Verified(v)' /\ vaults'[v] # Null
        /\ (Succeeded(out', {"getAddress", "signTransaction", "exportVault"})
               /\ out'.arg.vaultId = v)
           => Verified(v) /\ Verified(v)'
      ]_vars

C3_Witness ==
    /\ Succeeded(out, {"signTransaction"})
    /\ Verified(out.arg.vaultId)
    /\ store[out.arg.vaultId].email # ""
    /\ vaults[out.arg.vaultId] # Null

\* C4: the chains of a stored record only grow: a chain that is in the stored
\* chains of a vault is in them in every later state, under every
\* interleaving of the requests on that vault.
C4_ChainsOnlyGrow ==
    [][\A v \in VaultIds :
        Record(v) => Record(v)' /\ ChainSet(store[v]) \subseteq ChainSet(store'[v])
      ]_vars

\* C5: with one request at a time, a getAddress that succeeds for chain c
\* leaves the stored chains equal, as a set, to the chains before it plus c,
\* without a duplicate; when c was there already the record is unchanged.
NoDuplicate(arr) == Cardinality(Range(arr)) = Len(arr)

C5_SequentialUnion ==
    [][(req[1].op = "getAddress" /\ Succeeded(out', {"getAddress"}))
        => LET v == req[1].arg.vaultId
               c == req[1].arg.chain
           IN /\ store'[v] # Null
              /\ ChainSet(store'[v]) = ChainSet(store[v]) \cup {c}
              /\ NoDuplicate(ChainsOrEmpty(store'[v]))
              /\ (c \in ChainSet(store[v]) => store'[v] = store[v])
      ]_vars

C5_Witness ==
    /\ Succeeded(out, {"getAddress"})
    /\ ChainSet(store[out.arg.vaultId]) = Chains

\* C6: a metadata record exists for a vault id exactly when a createFastVault
\* or createSecureVault call has completed for that id.
C6_RecordIffCreated ==
    \A v \in VaultIds : Record(v) <=> v \in created

C6_Witness ==
    /\ Succeeded(out, {"verifyVault"})
    /\ out.arg.vaultId \in created
    /\ Record(out.arg.vaultId)

\* C7: for a vault id no create call has returned, getVaultMetadata answers
\* not found, and getAddress, signTransaction and exportVault answer with
\* their not-found / not-loaded error; no step of such a call changes the
\* metadata store, the export blobs, the handle map or the session map.
UnknownVaultOps == {"getVaultMetadata", "getAddress", "signTransaction", "exportVault"}

WellFormed(op, arg) ==
    /\ op = "signTransaction" => TruthyStr(arg, "transaction")
    /\ op = "exportVault" => TruthyStr(arg, "password")

UnknownVaultResponse(op) ==
    CASE op = "getVaultMetadata" -> errorHandler(AppError(ErrVaultNotFound, 404))
      [] op = "getAddress" -> errorHandler(Error(ErrNotFoundOrNotVerified))
      [] op = "signTransaction" -> errorHandler(Error(ErrNotLoadedVerify))
      [] op = "exportVault" -> errorHandler(Error(ErrNotLoaded))

C7_UnknownVault ==
    [][/\ (out'.resp # Null /\ out'.op \in UnknownVaultOps
              /\ out'.arg.vaultId \notin created /\ WellFormed(out'.op, out'.arg))
          => /\ out'.resp = UnknownVaultResponse(out'.op)
             /\ UNCHANGED <<store, exports, vaults, secureVaultSessions>>
       /\ (req'[1].op \in UnknownVaultOps /\ req'[1].arg.vaultId \notin created)
          => UNCHANGED <<store, exports, vaults, secureVaultSessions>>
      ]_vars

C7_Witness ==
    /\ out.op = "exportVault" /\ out.arg.vaultId = "v2"
    /\ out.resp = errorHandler(Error(ErrNotLoaded))
    /\ vaults["v1"] # Null

\* C8: a restart empties the handle map and the session map and keeps the
\* metadata records and export blobs; while a vault with a verified record
\* has no handle, getAddress, signTransaction and exportVault on it answer
\* with their not-loaded error, and it gets a handle again only in the step
\* in which a verifyVault on it succeeds.
NotLoadedError(op) ==
    CASE op = "getAddress" -> ErrNotLoadedReverify
      [] op = "signTransaction" -> ErrNotLoadedVerify
      [] op = "exportVault" -> ErrNotLoaded

C8_RestartUnloads ==
    [][/\ out' = ServerRunning
          => /\ \A v \in VaultIds : vaults'[v] = Null /\ secureVaultSessions'[v] = Null
             /\ store' = store /\ exports' = exports
       /\ \A v \in VaultIds :
            (Verified(v) /\ vaults[v] = Null)
            => /\ (out'.resp # Null
                      /\ out'.op \in {"getAddress", "signTransaction", "exportVault"}
                      /\ out'.arg.vaultId = v)
                  => (~out'.resp.success /\ out'.resp.error = NotLoadedError(out'.op))
               /\ vaults'[v] # Null
                  => (Succeeded(out', {"verifyVault"}) /\ out'.arg.vaultId = v)
      ]_vars

C8_Witness ==
    /\ out.op = "signTransaction" /\ Responded
    /\ out.resp.error = ErrNotLoadedVerify
    /\ Verified(out.arg.vaultId) /\ vaults[out.arg.vaultId] = Null
    /\ store[out.arg.vaultId].email # ""

\* C9: listVaults with a userId answers exactly the listed records whose
\* userId equals it, and listVaults without a userId answers every listed
\* record.
C9_ListExactlyMatching ==
    (out.op = "listVaults" /\ Responded)
    => LET listed == {store[v] : v \in out.loc.files}
       IN out.resp.data.vaults =
             IF Has(out.arg, "userId")
             THEN {m \in listed : Has(m, "userId") /\ m.userId = out.arg.userId}
             ELSE listed

\* C10: a session starts pending with no device joined, and during the
\* ceremony and afterwards its status is ready exactly when devicesJoined
\* equals devicesRequired.
ReadyIffAllJoined(session) ==
    (session.status = "ready") <=> (session.devicesJoined = session.devicesRequired)

C10_ReadyIffAllJoined ==
    /\ \A r \in Slots :
          req[r].pc \in {"cs_sdk", "cs_save"} => ReadyIffAllJoined(req[r].loc.currentSession)
    /\ \A v \in VaultIds :
          secureVaultSessions[v] # Null => ReadyIffAllJoined(secureVaultSessions[v])

\* C11: when the SDK's createSecureVault call rejects, the session of that
\* ceremony is left with status failed, and a session whose status is failed
\* never changes status again.
SessionsAfter(r) ==
    {secureVaultSessions[v] : v \in {w \in VaultIds : secureVaultSessions[w] # Null}}
    \cup (IF req[r].pc \in {"cs_sdk", "cs_save"} THEN {req[r].loc.currentSession} ELSE {})

C11_FailedOnRejection ==
    [][/\ \A r \in Slots :
            (req[r].pc = "cs_sdk" /\ req'[r].pc = "idle"
                /\ out'.op = "createSecureVault" /\ out'.resp # Null)
            => \E session \in SessionsAfter(r)' :
                  /\ session.status = "failed"
                  /\ session.devicesRequired = req[r].arg.devices
       /\ \A v \in VaultIds :
            (secureVaultSessions[v] # Null /\ secureVaultSessions[v].status = "failed")
            => (secureVaultSessions'[v] # Null /\ secureVaultSessions'[v].status = "failed")
      ]_vars

\* C12: while a createSecureVault call waits for the SDK and a callback has
\* changed its session (QR code set, devices joined, status ready), that
\* session state is what getSecureVaultSession answers for some vault id.
CeremonyChanged(session) ==
    session.qrCode # "" \/ session.devicesJoined # 0 \/ session.status # "pending"

C12_CeremonyObservable ==
    \A r \in Slots :
        (req[r].pc = "cs_sdk" /\ CeremonyChanged(req[r].loc.currentSession))
        => \E v \in VaultIds :
              LET session == secureVaultSessions[v]
                  current == req[r].loc.currentSession
              IN /\ session # Null
                 /\ session.qrCode = current.qrCode
                 /\ session.devicesJoined = current.devicesJoined
                 /\ session.devicesRequired = current.devicesRequired
                 /\ session.status = current.status

\* C13: POST /secure with threshold greater than devices is answered 400
\* in the step that receives it, no createSecureVault call of the
\* orchestrator is ever in flight for such a body, and the step creates no
\* record, no session and no handle and draws no vault id from the SDK.
ThresholdAboveDevices(body) ==
    Has(body, "threshold") /\ Has(body, "devices") /\ body.threshold > body.devices

C13_ThresholdAboveDevices ==
    [][/\ (out'.op = "createSecureVault" /\ out'.resp # Null
              /\ ThresholdAboveDevices(out'.arg))
          => /\ out'.resp.status = 400 /\ ~out'.resp.success
             /\ UNCHANGED <<store, vaults, secureVaultSessions, issued, created, req>>
       /\ \A r \in Slots :
            req'[r].op = "createSecureVault" => ~ThresholdAboveDevices(req'[r].arg)
      ]_vars

C13_Witness ==
    /\ out.op = "createSecureVault" /\ Responded
    /\ TruthyStr(out.arg, "name") /\ TruthyNum(out.arg, "devices")
    /\ ThresholdAboveDevices(out.arg)
    /\ out.resp = errorHandler(AppError("Threshold cannot exceed number of devices", 400))

\* C14: getAddress on a vault whose record exists with verified=false and
\* that has no live handle is answered with the not-found / not-verified
\* failure, and the HTTP status of that answer is not 500.
C14_UnverifiedNot500 ==
    [][\A r \in Slots :
        (req[r].pc = "ga_check" /\ req'[r].pc = "idle" /\ out'.resp # Null
            /\ Record(req[r].arg.vaultId) /\ ~Verified(req[r].arg.vaultId))
        => /\ ~out'.resp.success
           /\ out'.resp.error = ErrNotFoundOrNotVerified
           /\ out'.resp.status # 500
      ]_vars

\* C15: every answer is a success envelope or the error handler's mapping
\* of the error raised: status 400 or 404 as carried by the AppError of the
\* route, 500 for any other error, success false, error the message, no
\* data; no step in which an error was caught answers with a success envelope.
ValidationMessages ==
    {"Missing required fields: name, email, password",
     "Missing required fields: name, devices, threshold",
     "Threshold cannot exceed number of devices",
     "Verification code is required",
     "Transaction payload is required",
     "Password is required for export"}

ExpectedStatus(op, message) ==
    IF message \in ValidationMessages THEN 400
    ELSE IF \/ op = "getVaultMetadata" /\ message = ErrVaultNotFound
            \/ op = "getSecureVaultSession" /\ message = "Session not found"
         THEN 404
         ELSE 500

MappedError(o) ==
    /\ ~o.resp.success /\ o.resp.data = Null /\ o.resp.error # ""
    /\ o.resp.status = ExpectedStatus(o.op, o.resp.error)
    /\ Has(o.loc, "error") => o.resp.error = o.loc.error.message

C15_ErrorsMappedOnce ==
    Responded
    => IF out.resp.success
       THEN out.resp.status \in {200, 201} /\ out.resp.error = "" /\ ~Has(out.loc, "error")
       ELSE MappedError(out)

\* C15 as amended: as above, except that an error caught while the record
\* files are listed is answered by listVaults with a success envelope
\* holding the empty list.
C15_ErrorsMappedOnceExceptList ==
    Responded
    => IF out.resp.success
       THEN /\ out.resp.status \in {200, 201} /\ out.resp.error = ""
            /\ Has(out.loc, "error")
               => (out.op = "listVaults" /\ out.resp.data = [vaults |-> {}])
       ELSE MappedError(out) /\ out.op # "listVaults"

C15_Witness ==
    /\ out.op = "listVaults" /\ Responded
    /\ Has(out.loc, "error") /\ out.resp.success
    /\ \E v \in VaultIds : Record(v)

\* C16: a verifyVault whose SDK call is rejected is answered with the SDK's
\* error and a status other than 200, and that step leaves the records, the
\* blobs, the handles and the sessions as they were; a verifyVault that
\* succeeds leaves its vault verified with a cached handle.
C16_RejectedVerify ==
    [][/\ \A r \in Slots :
            (req[r].pc = "vv_sdk" /\ req'[r].pc = "idle" /\ out'.resp # Null)
            => /\ out'.op = "verifyVault" /\ out'.arg = req[r].arg
               /\ ~out'.resp.success /\ out'.resp.status # 200
               /\ out'.resp.error = ErrSdk
               /\ UNCHANGED <<store, exports, vaults, secureVaultSessions>>
       /\ \A v \in VaultIds :
            (Succeeded(out', {"verifyVault"}) /\ out'.arg.vaultId = v)
            => (Verified(v)' /\ vaults'[v] # Null)
      ]_vars

C16_Witness ==
    /\ out.op = "verifyVault" /\ Responded
    /\ out.resp.error = ErrSdk
    /\ Record(out.arg.vaultId) /\ ~Verified(out.arg.vaultId)
    /\ vaults[out.arg.vaultId] = Null
    /\ \E r \in Slots : req[r].op = "verifyVault" /\ req[r].pc = "upd_write"

\* C17: in the step in which createSecureVault answers with success for
\* vault id v, the record of v exists with verified=true, a handle of v is
\* cached, the session map holds for v the session that is returned, and
\* that session has vaultId v, a session id, and devicesRequired equal to
\* the devices of the request.
C17_SecureVaultCompleted ==
    [][\A r \in Slots :
        (req[r].op = "createSecureVault" /\ req'[r].pc = "idle"
            /\ Succeeded(out', {"createSecureVault"}))
        => LET session == out'.resp.data
               v == session.vaultId
           IN /\ v \in VaultIds
              /\ store'[v] # Null /\ store'[v].verified /\ store'[v].vaultId = v
              /\ vaults'[v] # Null
              /\ secureVaultSessions'[v] = session
              /\ session.sessionId # ""
              /\ session.devicesRequired = req[r].arg.devices
              /\ out'.resp.status = 201
      ]_vars

C17_Witness ==
    /\ Succeeded(out, {"createSecureVault"})
    /\ out.resp.data.devicesRequired = 2
    /\ out.resp.data.devicesJoined = 2
    /\ out.resp.data.qrCode # ""
    /\ vaults[out.resp.data.vaultId] # Null

\* C18: in the step in which exportVault answers with success for vault v,
\* getVaultExport(v) is the blob answered and the blobs of the other vaults
\* are unchanged; a blob changes in no other step; exportVault on a vault
\* without a cached handle answers 'Vault not loaded', and on a handle
\* without export 'Vault does not support export'.
C18_ExportStored ==
    [][\A v \in VaultIds :
        /\ (Succeeded(out', {"exportVault"}) /\ out'.arg.vaultId = v)
           => /\ getVaultExport(v)' = out'.resp.data.backup
              /\ \A w \in VaultIds \ {v} : getVaultExport(w)' = getVaultExport(w)
        /\ getVaultExport(v)' # getVaultExport(v)
           => (Succeeded(out', {"exportVault"}) /\ out'.arg.vaultId = v)
        /\ (out'.op = "exportVault" /\ out'.resp # Null /\ out'.arg.vaultId = v
               /\ WellFormed(out'.op, out'.arg))
           => /\ vaults[v] = Null
                 => (~out'.resp.success /\ out'.resp.error = ErrNotLoaded)
              /\ (vaults[v] # Null /\ ~vaults[v].export)
                 => (~out'.resp.success /\ out'.resp.error = ErrNoExport)
      ]_vars

C18_Witness ==
    /\ Succeeded(out, {"exportVault"})
    /\ out.arg.vaultId = "v1"
    /\ out.resp.data.backup = Blob("blob2")
    /\ getVaultExport("v1") = Blob("blob2")
    /\ getVaultExport("v2") = Blob("blob1")

\* C19: while a createSecureVault call waits for the SDK, every operation on
\* a vault can still be received, and a request already in flight still has
\* its next step enabled.
Receivable(q) ==
    /\ ENABLED createFastVault_start(q, [name |-> "W", email |-> "a@b.com", password |-> "P"])
    /\ ENABLED verifyVault_start(q, "v1", [verificationCode |-> "123456"])
    /\ \A c \in Chains : ENABLED getAddress_start(q, "v1", c)
    /\ ENABLED signTransaction_start(q, "v1", [transaction |-> "tx"])
    /\ ENABLED exportVault_start(q, "v1", [password |-> "P"])
    /\ ENABLED getVaultMetadata_start(q, "v1")
    /\ ENABLED listVaults_start(q, <<>>)

Proceeds(q) ==
    ENABLED (\/ ContinueWrite(q, {"v1"}, WithExport(FastVaultHandles), WithExport(SecureVaultHandles))
             \/ ContinueRead(q))

C19_CeremonyDoesNotStall ==
    \A r \in Slots :
        req[r].pc = "cs_sdk"
        => \A q \in Slots \ {r} :
              IF req[q].pc = "idle" THEN Receivable(q) ELSE Proceeds(q)

C19_Witness ==
    /\ req[1].pc = "cs_sdk"
    /\ Succeeded(out, {"getAddress"})
    /\ ChainSet(store[out.arg.vaultId]) = Chains

\* C20: a process that listens, and so every answer it gives, has the SDK
\* and the storage initialized; a process started with a storage directory
\* that cannot be created has exited with a failure code and does not
\* listen.
C20_InitializedBeforeServing ==
    /\ proc.pc = "listening" => proc.initialized = {"sdk", "storage"}
    /\ Responded => proc.initialized = {"sdk", "storage"}
    /\ (proc.dir = "uncreatable" /\ proc.pc # "start")
       => (proc.pc = "exited" /\ proc.exitCode # 0)

\* C21: the write of updateVaultMetadata stores the record merged from the
\* call's own read, whatever the file holds by then: when a getAddress has
\* stored chains since a verifyVault read the record, the verifyVault's
\* write leaves the record with verified=true and without those chains.
C21_WriteStoresOwnRead ==
    [][\A r \in Slots :
        (req[r].pc = "upd_write" /\ req'[r].pc = "idle"
            /\ Succeeded(out', {"verifyVault", "getAddress"}))
        => LET v == req[r].arg.vaultId
           IN /\ store'[v] = req[r].loc.updated
              /\ (req[r].op = "verifyVault" /\ ~Has(req[r].loc.updated, "chains"))
                 => (store'[v].verified /\ ChainSet(store'[v]) = {})
      ]_vars

C21_Witness ==
    \E r \in Slots :
        /\ req[r].pc = "upd_write" /\ req[r].op = "verifyVault"
        /\ ~Has(req[r].loc.updated, "chains")
        /\ Succeeded(out, {"getAddress"})
        /\ out.arg.vaultId = req[r].arg.vaultId
        /\ ChainSet(store[req[r].arg.vaultId]) # {}

\* C22: getSecureVaultSession only looks the id up in the session map and
\* changes nothing: it answers with the map's session when there is one and
\* with 404 otherwise, so with 404 for an id the SDK has not issued yet (its
\* ceremony still in flight), for a fast vault and for a secure vault whose
\* session a restart removed. An id gets a session only in the step in which
\* sdk.createSecureVault returns for it, and a restart removes every session.
C22_SessionLookupOnly ==
    [][/\ (out'.op = "getSecureVaultSession" /\ out'.resp # Null)
          => LET v == out'.arg.vaultId
             IN /\ UNCHANGED <<store, exports, vaults, secureVaultSessions, req, issued>>
                /\ IF secureVaultSessions[v] # Null
                   THEN out'.resp = Success(200, secureVaultSessions[v])
                   ELSE out'.resp.status = 404 /\ ~out'.resp.success
                /\ (v \notin issued \/ (Record(v) /\ store[v].email # ""))
                   => out'.resp.status = 404
       /\ \A v \in VaultIds :
            (secureVaultSessions[v] = Null /\ secureVaultSessions'[v] # Null)
            => \E r \in Slots :
                  /\ req[r].op = "createSecureVault" /\ req[r].pc = "cs_sdk"
                  /\ req'[r].pc = "cs_save" /\ req'[r].loc.vaultId = v
       /\ out' = ServerRunning => \A v \in VaultIds : secureVaultSessions'[v] = Null
      ]_vars

\* a secure vault with its record, its session lost by a restart, is asked for
C22_Witness ==
    /\ out.op = "getSecureVaultSession" /\ out.resp # Null
    /\ out.resp.status = 404
    /\ Record(out.arg.vaultId) /\ store[out.arg.vaultId].email = ""
    /\ \E r \in Slots : req[r].pc = "cs_sdk"
    /\ \E v \in VaultIds : Record(v) /\ store[v].email # ""

\* the awaits of the one VaultService call a route makes, by operation
ServiceSteps(op) ==
    CASE op = "createFastVault" -> {"cf_sdk", "cf_save"}
      [] op = "createSecureVault" -> {"cs_sdk", "cs_save"}
      [] op = "verifyVault" -> {"vv_test_read", "vv_sdk", "upd_read", "upd_write"}
      [] op = "getAddress" -> {"ga_check", "ga_address", "ga_read", "upd_read", "upd_write"}
      [] op = "signTransaction" -> {"st_sign"}
      [] op = "exportVault" -> {"ev_export", "ev_save"}
      [] op = "listVaults" -> {"lv_readdir", "lv_read"}
      [] op = "getVaultMetadata" -> {"gm_read"}
      [] OTHER -> {}

\* the first await of each call
EntrySteps ==
    {"cf_sdk", "cs_sdk", "vv_test_read", "vv_sdk", "ga_check", "ga_address",
     "st_sign", "ev_export", "lv_readdir", "gm_read"}

\* a field the route requires is missing (undefined, "" or 0)
MissingField(op, arg) ==
    CASE op = "createFastVault" ->
            ~TruthyStr(arg, "name") \/ ~TruthyStr(arg, "email") \/ ~TruthyStr(arg, "password")
      [] op = "createSecureVault" ->
            ~TruthyStr(arg, "name") \/ ~TruthyNum(arg, "devices") \/ ~TruthyNum(arg, "threshold")
      [] op = "verifyVault" -> ~TruthyStr(arg, "verificationCode")
      [] op = "signTransaction" -> ~TruthyStr(arg, "transaction")
      [] op = "exportVault" -> ~TruthyStr(arg, "password")
      [] OTHER -> FALSE

\* C23: a request is inside the one VaultService call of its route from its
\* first await to its answer and never enters a call a second time; a
\* request with a required field missing is answered with 400 without
\* entering a call, and that step leaves the records, the blobs, the handles
\* and the sessions unchanged.
C23_OneCallNoneWhenInvalid ==
    [][/\ \A r \in Slots :
            /\ req'[r].pc # "idle"
               => /\ req'[r].pc \in ServiceSteps(req'[r].op)
                  /\ ~MissingField(req'[r].op, req'[r].arg)
            /\ (req[r].pc # "idle" /\ req'[r].pc # "idle")
               => /\ req'[r].op = req[r].op /\ req'[r].arg = req[r].arg
                  /\ req'[r].pc # req[r].pc => req'[r].pc \notin EntrySteps
       /\ (out'.resp # Null /\ MissingField(out'.op, out'.arg))
          => /\ out'.resp.status = 400 /\ ~out'.resp.success
             /\ UNCHANGED <<store, exports, vaults, secureVaultSessions, req, issued>>
      ]_vars

\* a signTransaction without transaction on a vault whose handle is cached
C23_Witness ==
    /\ out.op = "signTransaction" /\ out.resp # Null
    /\ MissingField(out.op, out.arg)
    /\ out.resp.status = 400
    /\ vaults[out.arg.vaultId] # Null

\* the record with exactly the fields of partial replaced
Replaced(metadata, partial) ==
    [k \in DOMAIN metadata \cup DOMAIN partial |->
        IF k \in DOMAIN partial THEN partial[k] ELSE metadata[k]]

\* C24: an updateVaultMetadata that finds no record for its vault id fails
\* with the not-found error and leaves the store unchanged, creating no
\* record; one that finds a record and writes leaves that record with the
\* fields of its partial replaced and every other field as it was, and
\* leaves the other records alone; a failed write changes nothing.
C24_UpdateMergesOrFails ==
    [][(req[1].pc \in {"upd_read", "upd_write"} /\ req'[1] # req[1] /\ out' # ServerRunning)
        => LET v == req[1].arg.vaultId
           IN IF req[1].pc = "upd_read"
              THEN /\ UNCHANGED <<store, vaults>>
                   /\ IF store[v] = Null
                      THEN /\ req'[1].pc = "idle"
                           /\ out'.resp = errorHandler(Error(ErrUpdateNotFound))
                      ELSE req'[1].pc = "upd_write"
              ELSE /\ req'[1].pc = "idle"
                   /\ IF out'.resp.success
                      THEN store' = [store EXCEPT ![v] = Replaced(store[v], req[1].loc.updates)]
                      ELSE UNCHANGED <<store, vaults>>
      ]_vars

\* a second chain has been stored on a verified vault with an owner's e-mail
C24_Witness ==
    /\ Succeeded(out, {"getAddress"})
    /\ LET m == store[out.arg.vaultId]
       IN /\ m.verified /\ m.email # ""
          /\ ChainSet(m) = Chains
          /\ m.vaultId = out.arg.vaultId

\* C25: listVaults always answers with the success envelope; when listing
\* the directory or reading a record fails, the answer holds the empty
\* collection, whatever records exist and whatever records the call had
\* already read, and the store is unchanged.
C25_ListSwallowsErrors ==
    [][\A r \in Slots :
        (req[r].op = "listVaults" /\ req'[r].pc = "idle" /\ out'.resp # Null)
        => /\ out'.resp.success /\ out'.resp.status = 200
           /\ Has(out'.loc, "error") => out'.resp.data = [vaults |-> {}]
           /\ UNCHANGED <<store, exports, vaults, secureVaultSessions>>
      ]_vars

\* the listing failed while two records are stored
C25_Witness ==
    /\ out.op = "listVaults" /\ Responded
    /\ Has(out.loc, "error")
    /\ out.resp.data = [vaults |-> {}]
    /\ \A v \in VaultIds : Record(v)

\* the fields of a record that identify the vault
IdentityFields == {"vaultId", "name", "email", "userId", "createdAt"}

\* in this step the record of v changes in no field outside fields
ChangesOnly(v, fields) ==
    \/ store'[v] = store[v]
    \/ /\ store[v] # Null /\ store'[v] # Null
       /\ \A k \in (DOMAIN store[v] \cup DOMAIN store'[v]) \ fields :
            /\ Has(store[v], k) /\ Has(store'[v], k)
            /\ store'[v][k] = store[v][k]

\* C26: a record once created stays, with its vaultId, name, email, userId
\* and createdAt as they are; a step of a verifyVault request changes no
\* field of a record other than verified, a step of a getAddress request no
\* field other than chains, and the steps of signTransaction, exportVault,
\* listVaults, getVaultMetadata and getSecureVaultSession change no record.
C26_IdentityAndFrames ==
    [][/\ \A v \in VaultIds :
            Record(v) => ChangesOnly(v, {"verified", "chains"}) /\ store'[v] # Null
       /\ \A r \in Slots : \A v \in VaultIds :
            (req'[r] # req[r] /\ out' # ServerRunning)
            => /\ req[r].op = "verifyVault" => ChangesOnly(v, {"verified"})
               /\ req[r].op = "getAddress" => ChangesOnly(v, {"chains"})
               /\ req[r].op \in {"signTransaction", "exportVault", "listVaults",
                                 "getVaultMetadata"}
                  => store'[v] = store[v]
       /\ (out'.resp # Null /\ out'.op = "getSecureVaultSession") => UNCHANGED store
      ]_vars

\* C27: a request in flight is answered eventually, with the success
\* envelope or with the error envelope {success: false, error}; a step that
\* answers takes exactly one request out of its slot and answers that one;
\* the process keeps listening.
C27_AnsweredOnce ==
    /\ \A r \in Slots : (req[r].pc # "idle") ~> (req[r].pc = "idle" /\ Responded)
    /\ [][/\ (out'.resp # Null /\ req' # req)
             => \E r \in Slots :
                   /\ req[r].pc # "idle" /\ req'[r] = IdleSlot
                   /\ out'.op = req[r].op /\ out'.arg = req[r].arg
                   /\ \A q \in Slots \ {r} : req'[q] = req[q]
          /\ \A r \in Slots :
                (req[r].pc # "idle" /\ req'[r].pc = "idle")
                => /\ out'.resp # Null
                   /\ out'.resp.success \/ (out'.resp.error # "" /\ out'.resp.data = Null)
         ]_vars
    /\ [](proc.pc = "listening")

\* a request has been answered with an error an awaited call raised while
\* the other request is still in flight
C27_Witness ==
    /\ Responded /\ ~out.resp.success
    /\ out.resp.status = 500 /\ out.resp.error = ErrSdk
    /\ \E r \in Slots : req[r].pc # "idle"

\* the request is a verifyVault with the test code in TEST_MODE
TestVerify(q) ==
    /\ isTestMode /\ q.op = "verifyVault"
    /\ q.arg.verificationCode = TEST_VERIFICATION_CODE

\* the request runs on the test handle
OnTestVault(q, op) ==
    /\ q.op = op /\ Has(q.loc, "vault") /\ q.loc.vault = TestVault

\* C28: in TEST_MODE a verifyVault with the code 000000 never waits for the
\* SDK; without a record for its vault it is answered with 'Vault not found'
\* and no handle is cached; with a record it either succeeds, leaving the
\* record verified and the test handle cached, or fails with the error of
\* the file write and changes nothing. On the test handle getAddress and
\* exportVault fail with nothing but the error of a file write, and
\* signTransaction always fails with the TEST_MODE error.
C28_TestModeBypass ==
    [][/\ TestVerify(req'[1]) => req'[1].pc \in {"vv_test_read", "upd_read", "upd_write"}
       /\ (TestVerify(req[1]) /\ req'[1].pc = "idle" /\ out'.resp # Null)
          => LET v == req[1].arg.vaultId
             IN IF store[v] = Null
                THEN /\ out'.resp = errorHandler(Error(ErrVaultNotFound))
                     /\ vaults'[v] = Null
                     /\ UNCHANGED store
                ELSE IF out'.resp.success
                     THEN store'[v].verified /\ vaults'[v] = TestVault
                     ELSE out'.resp.error = ErrIo /\ UNCHANGED <<store, vaults>>
       /\ (req[1].pc # "idle" /\ req'[1].pc = "idle" /\ out'.resp # Null)
          => /\ (OnTestVault(req[1], "getAddress") \/ OnTestVault(req[1], "exportVault"))
                => (out'.resp.success \/ out'.resp.error = ErrIo)
             /\ OnTestVault(req[1], "signTransaction")
                => (~out'.resp.success /\ out'.resp.error = ErrTestSign)
      ]_vars

\* signing fails on a test handle after an address and an export were produced
C28_Witness ==
    /\ out.op = "signTransaction" /\ Responded
    /\ out.resp.error = ErrTestSign
    /\ vaults[out.arg.vaultId] = TestVault
    /\ exports[out.arg.vaultId] # Null
    /\ ChainSet(store[out.arg.vaultId]) # {}

\* C29: every vault id with a cached handle has a metadata record with
\* verified=true, and every address, signature or export that is answered
\* belongs to a vault whose record says verified=true.
C29_HandleImpliesVerified ==
    /\ \A v \in VaultIds : vaults[v] # Null => (Record(v) /\ store[v].verified)
    /\ Succeeded(out, {"getAddress", "signTransaction", "exportVault"})
       => (Record(out.arg.vaultId) /\ store[out.arg.vaultId].verified)

\* a verifyVault has just cached the handle of a fast vault while another
\* verifyVault of the same vault is still about to write
C29_Witness ==
    /\ Succeeded(out, {"verifyVault"})
    /\ vaults[out.arg.vaultId] # Null
    /\ store[out.arg.vaultId].email # ""
    /\ \E r \in Slots : req[r].op = "verifyVault" /\ req[r].pc = "upd_write"

\* the record of v was written by createSecureVault (it has no e-mail)
SecureRecord(v) == Record(v) /\ store[v].email = ""

\* C30: every vault with a secure vault's record and a cached handle has a
\* session; createSecureVault records the session when the SDK call returns,
\* caches the handle in the step in which the record is saved, and when the
\* save fails answers with the error while the session stays recorded and
\* the vault has neither record nor handle.
C30_HandleImpliesSession ==
    /\ [](\A v \in VaultIds :
            (vaults[v] # Null /\ SecureRecord(v)) => secureVaultSessions[v] # Null)
    /\ [][\A r \in Slots :
            (req[r].pc = "cs_save" /\ req'[r].pc = "idle" /\ out'.resp # Null)
            => LET v == req[r].loc.vaultId
               IN /\ secureVaultSessions[v] # Null
                  /\ UNCHANGED secureVaultSessions
                  /\ IF out'.resp.success
                     THEN store'[v] # Null /\ vaults'[v] # Null
                     ELSE store'[v] = Null /\ vaults'[v] = Null
         ]_vars

\* C30 as amended: a handle that createSecureVault cached comes with the
\* session and the record of its vault; the rest as above.
C30_CreatedHandleImpliesSession ==
    /\ [](\A v \in VaultIds :
            (vaults[v] # Null /\ vaults[v].kind = "secure")
            => (secureVaultSessions[v] # Null /\ SecureRecord(v)))
    /\ [][\A r \in Slots :
            /\ (req[r].pc = "cs_sdk" /\ req'[r].pc = "cs_save")
               => /\ secureVaultSessions'[req'[r].loc.vaultId] # Null
                  /\ UNCHANGED <<store, vaults>>
            /\ (req[r].pc = "cs_save" /\ req'[r].pc = "idle" /\ out'.resp # Null)
               => LET v == req[r].loc.vaultId
                  IN /\ secureVaultSessions[v] # Null
                     /\ UNCHANGED secureVaultSessions
                     /\ IF out'.resp.success
                        THEN store'[v] # Null /\ vaults'[v] # Null
                        ELSE store'[v] = Null /\ vaults'[v] = Null
         ]_vars

\* the save of a secure vault failed: its session is recorded, it has
\* neither record nor handle
C30_Witness ==
    /\ out.op = "createSecureVault" /\ Responded
    /\ out.resp.error = ErrIo
    /\ \E v \in VaultIds :
         secureVaultSessions[v] # Null /\ store[v] = Null /\ vaults[v] = Null

\* C31: while a ceremony runs and when its SDK call returns, the status of
\* its session is pending or ready, changes only from pending to ready, and
\* that only with devicesJoined equal to devicesRequired; a session that is
\* ready stays ready whatever callback follows; a device-joined callback
\* with count t leaves devicesJoined at t; a recorded session keeps its
\* status.
C31_PendingToReadyOnly ==
    [][/\ \A r \in Slots :
            (req[r].pc = "cs_sdk" /\ req'[r].pc \in {"cs_sdk", "cs_save"})
            => LET session == req[r].loc.currentSession
                   after == req'[r].loc.currentSession
               IN /\ after.status \in {"pending", "ready"}
                  /\ session.status = "ready" => after.status = "ready"
                  /\ after.status # session.status
                     => after.devicesJoined = after.devicesRequired
                  /\ \A t \in 0..MaxDevices :
                        onDeviceJoined(r, t, req[r].arg.devices)
                        => after.devicesJoined = t
                  /\ (onQRCodeReady(r, "qr") \/ onProgress(r))
                     => (after.devicesJoined = session.devicesJoined
                         /\ after.status = session.status)
       /\ \A v \in VaultIds :
            (secureVaultSessions[v] # Null /\ secureVaultSessions'[v] # Null)
            => secureVaultSessions'[v].status = secureVaultSessions[v].status
      ]_vars

\* a ceremony that was ready has got a device-joined callback with a lower count
C31_Witness ==
    \E r \in Slots :
        /\ req[r].pc = "cs_sdk"
        /\ req[r].loc.currentSession.status = "ready"
        /\ req[r].loc.currentSession.devicesJoined < req[r].loc.currentSession.devicesRequired

\* this step belongs to a verifyVault with the test code in TEST_MODE
BypassStep ==
    /\ isTestMode
    /\ \/ TestVerify(req[1])
       \/ TestVerify(req'[1])
       \/ /\ out'.op = "verifyVault" /\ out'.resp # Null
          /\ Has(out'.arg, "verificationCode")
          /\ out'.arg.verificationCode = TEST_VERIFICATION_CODE

\* C32: every step that does not belong to a verifyVault with the code
\* 000000 in TEST_MODE is a step of the bypass-capable service and of the
\* plain service alike, from the same state to the same state and with the
\* same answer; without TEST_MODE no request takes the bypass and no test
\* handle is cached, so a verifyVault that succeeds has the handle the SDK
\* returned.
C32_SameAsPlain ==
    [][/\ ~BypassStep => (NextSeq /\ NextSeqPlain)
       /\ ~isTestMode
          => /\ req'[1].pc # "vv_test_read"
             /\ \A v \in VaultIds : vaults'[v] # TestVault
             /\ Succeeded(out', {"verifyVault"})
                => /\ req[1].pc = "upd_write"
                   /\ req[1].loc.vault \in FastVaultHandles
                   /\ vaults'[out'.arg.vaultId] = req[1].loc.vault
      ]_vars

\* without TEST_MODE the code 000000 has been accepted by the SDK
C32_Witness ==
    /\ ~isTestMode
    /\ Succeeded(out, {"verifyVault"})
    /\ out.arg.verificationCode = TEST_VERIFICATION_CODE
    /\ vaults[out.arg.vaultId] \in FastVaultHandles
    /\ Verified(out.arg.vaultId)

====
